---- MODULE Spec2Model ----
(***************************************************************************)
(* Model of the QR-scan-to-preview page: pages/index.js (Home) and the     *)
(* scanner component components/QrScanner.js, together with the second     *)
(* copy of the scanner component found in unnamed/part_000.                *)
(*                                                                         *)
(* JavaScript strings are sequences of one-character strings; JavaScript   *)
(* values are records [t |-> type, v |-> payload].                         *)
(***************************************************************************)
EXTENDS Naturals, Integers, Sequences, FiniteSets, TLC

VARIABLES
  \* ---- pages/index.js : Home ----
  track,            \* useState(null)            index.js:8
  status,           \* useState("Ready ...")     index.js:9
  showDetails,      \* useState(false)           index.js:10
  hcalls,           \* the invocations of handleScan, in the order of the scans
  fetchLog,         \* the calls of fetch() made so far, in order
  resp,             \* the response most recently handed to the page
  \* ---- QrScanner ----
  variant,          \* which copy of the component is mounted
  scriptState,      \* the <script> element: "loading" | "loaded" | "failed"
  scriptLoaded,     \* useState(false)           QrScanner.js:13
  scanning,         \* useState(false)           QrScanner.js:14
  cameras,          \* useState([])              QrScanner.js:15
  selectedCameraId, \* useState("")              QrScanner.js:16
  errorMsg,         \* useState("")              QrScanner.js:17
  html5QrRef,       \* useRef(null): 0 or the number of an instance
  camInit,          \* position of initCameras
  inst,             \* the Html5Qrcode instances created so far (library state)
  scalls,           \* the invocations of startScanner / stopScanner
  decoded,          \* the successful decodes of the library, in order
  \* ---- inputs and outputs of the pure functions ----
  exIn, exOut,      \* extractAppleTrackId
  nzIn, nzOut       \* normalizeItunesItem

pageVars == <<track, status, showDetails, hcalls, fetchLog, resp>>
scanVars == <<variant, scriptState, scriptLoaded, scanning, cameras,
              selectedCameraId, errorMsg, html5QrRef, camInit, inst, scalls,
              decoded>>
pureVars == <<exIn, exOut, nzIn, nzOut>>
vars == <<pageVars, scanVars, pureVars>>

(***************************************************************************)
(* Bounds                                                                  *)
(***************************************************************************)
MaxTokens == 4      \* tokens in an input text of extractAppleTrackId
MaxUrlLen == 2      \* tokens in an artwork URL
MaxScans  == 2      \* decodes delivered by the scanner
MaxInst   == 2      \* Html5Qrcode instances created
MaxOps    == 3      \* invocations of startScanner / stopScanner
MaxStarts == 3      \* calls of start() by one invocation of startScanner

(***************************************************************************)
(* JavaScript values                                                       *)
(***************************************************************************)
Undefined == [t |-> "undefined", v |-> <<>>]
Null      == [t |-> "null", v |-> <<>>]
Str(s)    == [t |-> "string", v |-> s]

\* ToBoolean on the values above: undefined, null and "" are falsy
Truthy(x) == x.t = "string" /\ x.v # <<>>

\* a || b
Or(a, b) == IF Truthy(a) THEN a ELSE b

Num(s)    == [t |-> "number", v |-> s]

(***************************************************************************)
(* extractAppleTrackId                                   index.js:45-57    *)
(***************************************************************************)
Digits == {"0", "1", "2", "3", "4", "5", "6", "7", "8", "9"}

MinNumericLen == 6

\* \d
IsDigit(c) == c \in Digits

\* (\d+) at position p: greedy, the longest run of digits starting there
RECURSIVE DigitRun(_, _)
DigitRun(text, p) ==
  IF p <= Len(text) /\ IsDigit(text[p])
    THEN <<text[p]>> \o DigitRun(text, p + 1)
    ELSE <<>>

\* /[?&]i=(\d+)/ matches at position p
IParamAt(text, p) ==
  /\ p + 3 <= Len(text)
  /\ text[p] \in {"?", "&"}
  /\ text[p + 1] = "i"
  /\ text[p + 2] = "="
  /\ IsDigit(text[p + 3])

\* /\/id(\d+)/ matches at position p
IdPathAt(text, p) ==
  /\ p + 3 <= Len(text)
  /\ text[p] = "/"
  /\ text[p + 1] = "i"
  /\ text[p + 2] = "d"
  /\ IsDigit(text[p + 3])

\* String.prototype.match without the g flag: the leftmost match, 0 if none
RECURSIVE MatchIParam(_, _)
MatchIParam(text, p) ==
  IF p > Len(text) THEN 0
  ELSE IF IParamAt(text, p) THEN p
  ELSE MatchIParam(text, p + 1)

RECURSIVE MatchIdPath(_, _)
MatchIdPath(text, p) ==
  IF p > Len(text) THEN 0
  ELSE IF IdPathAt(text, p) THEN p
  ELSE MatchIdPath(text, p + 1)

\* /^(\d{6,})$/
MatchNumeric(text) ==
  /\ Len(DigitRun(text, 1)) >= MinNumericLen
  /\ Len(DigitRun(text, 1)) = Len(text)

\* a plausible slip: the /id test before the i= test
extractAppleTrackId_idFirst(text) ==
  IF ~Truthy(text) THEN Null
  ELSE IF MatchIdPath(text.v, 1) # 0
    THEN Str(DigitRun(text.v, MatchIdPath(text.v, 1) + 3))
  ELSE IF MatchIParam(text.v, 1) # 0
    THEN Str(DigitRun(text.v, MatchIParam(text.v, 1) + 3))
  ELSE IF MatchNumeric(text.v) THEN Str(text.v)
  ELSE Null

extractAppleTrackId(text) ==
  IF ~Truthy(text) THEN Null
  ELSE IF MatchIParam(text.v, 1) # 0
    THEN Str(DigitRun(text.v, MatchIParam(text.v, 1) + 3))
  ELSE IF MatchIdPath(text.v, 1) # 0
    THEN Str(DigitRun(text.v, MatchIdPath(text.v, 1) + 3))
  ELSE IF MatchNumeric(text.v) THEN Str(text.v)
  ELSE Null

(***************************************************************************)
(* normalizeItunesItem                                   index.js:100-110  *)
(***************************************************************************)
\* URLs are sequences of tokens; the two size tokens are the ones the
\* regular expression /100x100|60x60/ looks for
SizeTokens == {"100x100", "60x60"}

\* String.prototype.replace with a regex without the g flag: the leftmost
\* match only
RECURSIVE ReplaceSize(_)
ReplaceSize(url) ==
  IF url = <<>> THEN <<>>
  ELSE IF Head(url) \in SizeTokens THEN <<"600x600">> \o Tail(url)
  ELSE <<Head(url)>> \o ReplaceSize(Tail(url))

\* a plausible slip: the small artwork preferred to the large one
normalizeItunesItem_prefer60(item) ==
  [ id         |-> item.trackId,
    title      |-> item.trackName,
    artist     |-> item.artistName,
    album      |-> item.collectionName,
    artwork    |-> Str(ReplaceSize(
                     Or(item.artworkUrl60, Or(item.artworkUrl100, Str(<<>>))).v)),
    previewUrl |-> Or(item.previewUrl, Null),
    itunesUrl  |-> Or(item.trackViewUrl, Or(item.collectionViewUrl, Null)) ]

normalizeItunesItem(item) ==
  [ id         |-> item.trackId,
    title      |-> item.trackName,
    artist     |-> item.artistName,
    album      |-> item.collectionName,
    artwork    |-> Str(ReplaceSize(
                     Or(item.artworkUrl100, Or(item.artworkUrl60, Str(<<>>))).v)),
    previewUrl |-> Or(item.previewUrl, Null),
    itunesUrl  |-> Or(item.trackViewUrl, Or(item.collectionViewUrl, Null)) ]

(***************************************************************************)
(* Initial state of the page and of the scanner component                  *)
(***************************************************************************)
\* a status line: text + arg + tail, as the code concatenates it
St(text, arg, tail) == [text |-> text, arg |-> arg, tail |-> tail]

NoArg == Str(<<>>)

StReady == St("Ready - press Start Scanning and scan a QR.", NoArg, "")

\* a response of the catalog: the fetch was rejected, or it carries a body
\* that parses or not, with or without resultCount and results
Body(rejected, parses, resultCount, hasResults, results) ==
  [ rejected |-> rejected, parses |-> parses, resultCount |-> resultCount,
    hasResults |-> hasResults, results |-> results ]

NoResp == Body(FALSE, FALSE, 0, FALSE, <<>>)

InitPage ==
  /\ track = Null
  /\ status = StReady
  /\ showDetails = FALSE
  /\ hcalls = <<>>
  /\ fetchLog = <<>>
  /\ resp = NoResp

Variants == {"components/QrScanner.js", "unnamed/part_000"}

InitScanner ==
  /\ variant \in Variants
  /\ scriptState = "loading"
  /\ scriptLoaded = FALSE
  /\ scanning = FALSE
  /\ cameras = <<>>
  /\ selectedCameraId = (IF variant = "components/QrScanner.js"
                          THEN Str(<<>>) ELSE Null)
  /\ errorMsg = ""
  /\ html5QrRef = 0
  /\ camInit = "idle"
  /\ inst = <<>>
  /\ scalls = <<>>
  /\ decoded = <<>>

Pending == [t |-> "pending", v |-> <<>>]

InitPure ==
  /\ exIn = Undefined /\ exOut = Pending
  /\ nzIn = Undefined /\ nzOut = Pending

(***************************************************************************)
(* extractAppleTrackId applied to bounded texts                            *)
(***************************************************************************)
Tokens ==
  { <<"?", "i", "=">>, <<"&", "i", "=", "7">>, <<"/", "i", "d", "8">>,
    <<"/", "i", "d">>, <<"1">>, <<"x">>, <<"1", "2", "3", "4", "5">> }

RECURSIVE Concat(_)
Concat(toks) == IF toks = <<>> THEN <<>> ELSE Head(toks) \o Concat(Tail(toks))

SeqsUpTo(S, n) == UNION { [1..k -> S] : k \in 0..n }

ExtractInputs ==
  {Undefined, Null} \cup { Str(Concat(ts)) : ts \in SeqsUpTo(Tokens, MaxTokens) }

InitExtract ==
  /\ InitPage /\ InitScanner
  /\ nzIn = Undefined /\ nzOut = Pending
  /\ exIn \in ExtractInputs
  /\ exOut = Pending

ApplyExtract ==
  /\ exOut = Pending
  /\ exOut' = extractAppleTrackId(exIn)
  /\ UNCHANGED <<pageVars, scanVars, exIn, nzIn, nzOut>>

SpecExtract == InitExtract /\ [][ApplyExtract]_vars

(***************************************************************************)
(* normalizeItunesItem applied to bounded catalog items                    *)
(***************************************************************************)
UrlTokens == {"u", "100x100", "60x60"}

Urls(n) == { Str(u) : u \in SeqsUpTo(UrlTokens, n) }

Opt(S) == {Undefined} \cup S

Items ==
  [ trackId           : Opt({Num(<<"4", "2">>)}),
    trackName         : Opt({Str(<<"T">>)}),
    artistName        : Opt({Str(<<"A">>)}),
    collectionName    : Opt({Str(<<"C">>)}),
    artworkUrl100     : Opt(Urls(MaxUrlLen)),
    artworkUrl60      : Opt(Urls(MaxUrlLen - 1)),
    previewUrl        : Opt({Str(<<>>), Str(<<"p">>)}),
    trackViewUrl      : Opt({Str(<<>>), Str(<<"t">>)}),
    collectionViewUrl : Opt({Str(<<>>), Str(<<"c">>)}) ]

InitNormalize ==
  /\ InitPage /\ InitScanner
  /\ exIn = Undefined /\ exOut = Pending
  /\ nzIn \in Items
  /\ nzOut = Pending

ApplyNormalize ==
  /\ nzOut = Pending
  /\ nzOut' = normalizeItunesItem(nzIn)
  /\ UNCHANGED <<pageVars, scanVars, exIn, exOut, nzIn>>

SpecNormalize == InitNormalize /\ [][ApplyNormalize]_vars


(***************************************************************************)
(* pages/index.js : the scan-to-lookup pipeline                            *)
(***************************************************************************)
StLooking(id)       == St("Looking up track id ", id, " ...")
StSearching         == St("Searching iTunes for scanned text...", NoArg, "")
StFound(name)       == St("Found: ", name, " - tap Play")
StFoundByText(name) == St("Found by text: ", name, "")
StNoResultsId(id)   == St("No results for id: ", id, "")
StNoSearchResults   == St("No search results for scanned text", NoArg, "")
StLookupFailed      == St("Lookup failed", NoArg, "")
StSearchFailed      == St("Search failed", NoArg, "")
StScanError         == St("Scan error", NoArg, "")

\* the texts the QR codes in front of the camera decode to
ScanTexts ==
  { Str(<<"?", "i", "=", "7">>), Str(<<"/", "i", "d", "8">>), Str(<<"x">>) }

\* the items the catalog answers with
ItemA ==
  [ trackId |-> Num(<<"7">>), trackName |-> Str(<<"T">>),
    artistName |-> Str(<<"A">>), collectionName |-> Str(<<"C">>),
    artworkUrl100 |-> Str(<<"u", "100x100">>), artworkUrl60 |-> Str(<<"u", "60x60">>),
    previewUrl |-> Str(<<"p">>), trackViewUrl |-> Str(<<"t">>),
    collectionViewUrl |-> Str(<<"c">>) ]

ItemB ==
  [ trackId |-> Num(<<"8">>), trackName |-> Str(<<"S">>),
    artistName |-> Str(<<"B">>), collectionName |-> Undefined,
    artworkUrl100 |-> Undefined, artworkUrl60 |-> Str(<<"v", "60x60">>),
    previewUrl |-> Undefined, trackViewUrl |-> Undefined,
    collectionViewUrl |-> Str(<<"d">>) ]

Rejected == Body(TRUE, FALSE, 0, FALSE, <<>>)

\* the bodies a fulfilled fetch can carry: not JSON; no results; one result;
\* two results; a resultCount without a results array
Bodies ==
  { Body(FALSE, FALSE, 0, FALSE, <<>>),
    Body(FALSE, TRUE, 0, TRUE, <<>>),
    Body(FALSE, TRUE, 1, TRUE, <<ItemA>>),
    Body(FALSE, TRUE, 2, TRUE, <<ItemB, ItemA>>),
    Body(FALSE, TRUE, 1, FALSE, <<>>) }

\* the try block of lookupById / searchByText: what the awaited fetch and
\* json() and the test of the result lead to        index.js:64-72, 84-93
TryResult(body) ==
  IF body.rejected THEN "throw"
  ELSE IF ~body.parses THEN "throw"
  ELSE IF body.resultCount = 0 THEN "none"
  ELSE IF ~body.hasResults THEN "throw"
  ELSE IF Len(body.results) = 0 THEN "none"
  ELSE "found"

\* a plausible slip: no catch around the lookup, the exception reaches
\* handleScan
lookupByIdEnd_noCatch(id, body, cur) ==
  CASE TryResult(body) = "found" ->
         [ track |-> normalizeItunesItem(body.results[1]),
           status |-> StFound(body.results[1].trackName), throws |-> FALSE ]
    [] TryResult(body) = "none" ->
         [ track |-> cur, status |-> StNoResultsId(id), throws |-> FALSE ]
    [] OTHER ->
         [ track |-> cur, status |-> StLooking(id), throws |-> TRUE ]

\* a plausible slip: the last result instead of the first
lookupByIdEnd_lastResult(id, body, cur) ==
  CASE TryResult(body) = "found" ->
         [ track |-> normalizeItunesItem(body.results[Len(body.results)]),
           status |-> StFound(body.results[Len(body.results)].trackName),
           throws |-> FALSE ]
    [] TryResult(body) = "none" ->
         [ track |-> cur, status |-> StNoResultsId(id), throws |-> FALSE ]
    [] OTHER ->
         [ track |-> cur, status |-> StLookupFailed, throws |-> FALSE ]

\* lookupById after its await: the new track and status, and whether an
\* exception leaves the function                          index.js:65-76
lookupByIdEnd(id, body, cur) ==
  CASE TryResult(body) = "found" ->
         [ track |-> normalizeItunesItem(body.results[1]),
           status |-> StFound(body.results[1].trackName), throws |-> FALSE ]
    [] TryResult(body) = "none" ->
         [ track |-> cur, status |-> StNoResultsId(id), throws |-> FALSE ]
    [] OTHER ->
         [ track |-> cur, status |-> StLookupFailed, throws |-> FALSE ]

\* searchByText after its await                           index.js:86-97
searchByTextEnd(body, cur) ==
  CASE TryResult(body) = "found" ->
         [ track |-> normalizeItunesItem(body.results[1]),
           status |-> StFoundByText(body.results[1].trackName),
           throws |-> FALSE ]
    [] TryResult(body) = "none" ->
         [ track |-> cur, status |-> StNoSearchResults, throws |-> FALSE ]
    [] OTHER ->
         [ track |-> cur, status |-> StSearchFailed, throws |-> FALSE ]

\* a plausible slip: every scan goes to the search
HandleScanRoute_searchOnly(text) == "search"

\* handleScan: lookup when an id was extracted, else search  index.js:32-38
HandleScanRoute(text) ==
  IF Truthy(extractAppleTrackId(text)) THEN "lookup" ELSE "search"

\* handleScan(decodedText) up to its first await: the status line, the
\* extraction, and lookupById or searchByText up to the call of fetch
\*                                        index.js:28-38, 59-64, 79-85
handleScan(text) ==
  LET id    == extractAppleTrackId(text)
      route == HandleScanRoute(text)
      n     == Len(hcalls) + 1
  IN /\ track' = Null
     /\ showDetails' = FALSE
     /\ status' = (IF route = "lookup" THEN StLooking(id) ELSE StSearching)
     /\ fetchLog' = Append(fetchLog,
                      [ scan |-> n, api |-> route,
                        q |-> IF route = "lookup" THEN id ELSE text ])
     /\ hcalls' = Append(hcalls,
                      [ text |-> text, route |-> route, id |-> id,
                        pc |-> "fetch", out |-> "pending" ])
     /\ UNCHANGED resp

\* a plausible slip: no return after the lookup, the search follows
HandleScanAfterLookup_fallThrough == "searchByText"

\* handleScan after await lookupById(id): return          index.js:35
HandleScanAfterLookup == "return"

\* the rest of handleScan once the response (or the rejection) is there
\*                                                        index.js:34-42
Complete(n, body) ==
  LET c   == hcalls[n]
      end == IF c.route = "lookup" THEN lookupByIdEnd(c.id, body, track)
             ELSE searchByTextEnd(body, track)
  IN /\ resp' = body
     /\ IF c.route = "lookup" /\ ~end.throws
           /\ HandleScanAfterLookup = "searchByText"
          THEN \* searchByText(decodedText) up to its fetch
               /\ track' = Null
               /\ showDetails' = FALSE
               /\ status' = StSearching
               /\ fetchLog' = Append(fetchLog,
                                [scan |-> n, api |-> "search", q |-> c.text])
               /\ hcalls' = [hcalls EXCEPT ![n].route = "search",
                                           ![n].pc = "fetch"]
          ELSE /\ track' = end.track
               /\ status' = (IF end.throws THEN StScanError ELSE end.status)
               /\ hcalls' = [hcalls EXCEPT ![n].pc = "done",
                                           ![n].out = TryResult(body)]
               /\ UNCHANGED <<showDetails, fetchLog>>

\* await fetch(...) is fulfilled: res.json() is awaited next
FetchFulfilled(n) ==
  /\ hcalls[n].pc = "fetch"
  /\ hcalls' = [hcalls EXCEPT ![n].pc = "json"]
  /\ UNCHANGED <<track, status, showDetails, fetchLog, resp>>
  /\ UNCHANGED <<scanVars, pureVars>>

\* await fetch(...) is rejected (network failure)
FetchRejected(n) ==
  /\ hcalls[n].pc = "fetch"
  /\ Complete(n, Rejected)
  /\ UNCHANGED <<scanVars, pureVars>>

\* await res.json() settles with the body the server sent
JsonSettled(n, body) ==
  /\ hcalls[n].pc = "json"
  /\ Complete(n, body)
  /\ UNCHANGED <<scanVars, pureVars>>

\* the Reveal / Hide Details button                       index.js:152-157
ToggleDetails ==
  /\ showDetails' = ~showDetails
  /\ UNCHANGED <<track, status, hcalls, fetchLog, resp>>
  /\ UNCHANGED <<scanVars, pureVars>>

(***************************************************************************)
(* QrScanner: components/QrScanner.js and unnamed/part_000                 *)
(***************************************************************************)
IsComp == variant = "components/QrScanner.js"

EmLoadFailed == "Failed to load html5-qrcode library."
EmNoCameras  == "No cameras found. Make sure the device has a camera and camera permissions are allowed."
EmNoAccess   == "Could not access camera list. Permission denied or browser blocked."
EmNotLoaded  == "Scanner library not yet loaded."
EmUnable     == "Unable to start camera. Please ensure camera permission is allowed and the site is served over HTTPS (or localhost)."

\* the camera lists getCameras() can answer with
Cam1 == [id |-> Str(<<"cam1">>), back |-> FALSE]
Cam2 == [id |-> Str(<<"cam2">>), back |-> TRUE]

CamLists == { <<>>, <<Cam1>>, <<Cam1, Cam2>> }

\* cams.find(c => /back|rear|environment/i.test(c.label)) || cams[0]
RECURSIVE FindBack(_)
FindBack(cams) ==
  IF cams = <<>> THEN <<>>
  ELSE IF Head(cams).back THEN <<Head(cams)>>
  ELSE FindBack(Tail(cams))

Preferred(cams) == IF FindBack(cams) # <<>> THEN FindBack(cams)[1] ELSE cams[1]

\* the script element's onload: setScriptLoaded(true); initCameras() up to
\* its await of getCameras()          QrScanner.js:33-36, 50-62; part_000:25, 46-57
ScriptLoad ==
  /\ scriptState = "loading"
  /\ scriptState' = "loaded"
  /\ scriptLoaded' = (IF IsComp THEN TRUE ELSE scriptLoaded)
  /\ errorMsg' = (IF IsComp THEN "" ELSE errorMsg)
  /\ camInit' = "getCameras"
  /\ UNCHANGED <<variant, scanning, cameras, selectedCameraId, html5QrRef,
                 inst, scalls, decoded>>
  /\ UNCHANGED <<pageVars, pureVars>>

\* the script element's onerror       QrScanner.js:37-40; part_000:26
ScriptError ==
  /\ scriptState = "loading"
  /\ scriptState' = "failed"
  /\ errorMsg' = (IF IsComp THEN EmLoadFailed ELSE errorMsg)
  /\ UNCHANGED <<variant, scriptLoaded, scanning, cameras, selectedCameraId,
                 html5QrRef, camInit, inst, scalls, decoded>>
  /\ UNCHANGED <<pageVars, pureVars>>

\* initCameras after getCameras() is fulfilled; autoStart is false
\*                                    QrScanner.js:62-75; part_000:57-63
GetCamerasFulfilled(cams) ==
  /\ camInit = "getCameras"
  /\ camInit' = (IF cams = <<>> THEN "empty" ELSE "listed")
  /\ IF cams = <<>>
       THEN /\ errorMsg' = (IF IsComp THEN EmNoCameras ELSE errorMsg)
            /\ cameras' = <<>>
            /\ UNCHANGED selectedCameraId
       ELSE /\ cameras' = cams
            /\ selectedCameraId' = Preferred(cams).id
            /\ UNCHANGED errorMsg
  /\ UNCHANGED <<variant, scriptState, scriptLoaded, scanning, html5QrRef,
                 inst, scalls, decoded>>
  /\ UNCHANGED <<pageVars, pureVars>>

\* a plausible slip: the rejection is only logged
GetCamerasRejected_silent ==
  /\ camInit = "getCameras"
  /\ camInit' = "rejected"
  /\ UNCHANGED <<variant, scriptState, scriptLoaded, scanning, cameras,
                 selectedCameraId, errorMsg, html5QrRef, inst, scalls, decoded>>
  /\ UNCHANGED <<pageVars, pureVars>>

\* initCameras after getCameras() is rejected
\*                                    QrScanner.js:76-79; part_000:64-66
GetCamerasRejected ==
  /\ camInit = "getCameras"
  /\ camInit' = "rejected"
  /\ errorMsg' = (IF IsComp THEN EmNoAccess ELSE errorMsg)
  /\ UNCHANGED <<variant, scriptState, scriptLoaded, scanning, cameras,
                 selectedCameraId, html5QrRef, inst, scalls, decoded>>
  /\ UNCHANGED <<pageVars, pureVars>>

\* the camera <select>, rendered for more than one camera
\*                                    QrScanner.js:177-189; part_000:149-161
SelectCamera(i) ==
  /\ Len(cameras) > 1
  /\ i \in 1..Len(cameras)
  /\ selectedCameraId # cameras[i].id
  /\ selectedCameraId' = cameras[i].id
  /\ UNCHANGED <<variant, scriptState, scriptLoaded, scanning, cameras,
                 errorMsg, html5QrRef, camInit, inst, scalls, decoded>>
  /\ UNCHANGED <<pageVars, pureVars>>

\* an invocation of startScanner or stopScanner
SCall(op, pc, h, cons, starts) ==
  [ op |-> op, pc |-> pc, h |-> h, first |-> cons, cons |-> cons,
    starts |-> starts ]

\* the library is there, as startScanner tests it
\*                                    QrScanner.js:85; part_000:70
LibraryLoaded == IF IsComp THEN scriptLoaded ELSE scriptState = "loaded"

\* a plausible slip: the device id is ignored
FirstConstraint_facingOnly(deviceId) == "facingMode"

\* the constraint of the first start(): the device id when there is one
\*                                    QrScanner.js:103; part_000:92
FirstConstraint(deviceId) ==
  IF Truthy(deviceId) THEN "deviceId" ELSE "facingMode"

\* the Start Scanning button: startScanner(selectedCameraId) up to its
\* first await                        QrScanner.js:83-108, 166-171; part_000:69-106, 145
ClickStart ==
  /\ ~scanning
  /\ Len(scalls) < MaxOps
  /\ IF ~LibraryLoaded
       THEN /\ errorMsg' = (IF IsComp THEN EmNotLoaded ELSE errorMsg)
            /\ scalls' = Append(scalls, SCall("start", "done", 0, "none", 0))
            /\ UNCHANGED <<html5QrRef, inst>>
       ELSE /\ Len(inst) < MaxInst
            /\ errorMsg' = (IF IsComp THEN "" ELSE errorMsg)
            /\ inst' = Append(inst, [state |-> "starting", cb |-> "guarded"])
            /\ html5QrRef' = Len(inst) + 1
            /\ scalls' = Append(scalls,
                 SCall("start", "start", Len(inst) + 1,
                       FirstConstraint(selectedCameraId), 1))
  /\ UNCHANGED <<variant, scriptState, scriptLoaded, scanning, cameras,
                 selectedCameraId, camInit, decoded>>
  /\ UNCHANGED <<pageVars, pureVars>>

\* start() is fulfilled: the camera runs and decodes are delivered
\*                                    QrScanner.js:109-111, 124-126; part_000:107, 114
StartFulfilled(c) ==
  /\ scalls[c].pc = "start"
  /\ inst' = [inst EXCEPT ![scalls[c].h].state = "running"]
  /\ scanning' = TRUE
  /\ errorMsg' = (IF IsComp THEN "" ELSE errorMsg)
  /\ scalls' = [scalls EXCEPT ![c].pc = "done"]
  /\ UNCHANGED <<variant, scriptState, scriptLoaded, cameras,
                 selectedCameraId, html5QrRef, camInit, decoded>>
  /\ UNCHANGED <<pageVars, pureVars>>

\* a plausible slip: the failed start is tried again and again
StartFallsBack_always(v, call) == TRUE

\* after a rejected start(): is there a fallback attempt with facingMode?
\*                                    QrScanner.js:103-119; part_000:108-113
StartFallsBack(v, call) ==
  IF v = "components/QrScanner.js" THEN call.cons = "deviceId"
  ELSE call.starts = 1

\* start() is rejected                QrScanner.js:112-130; part_000:108-119
StartRejected(c) ==
  /\ scalls[c].pc = "start"
  /\ IF StartFallsBack(variant, scalls[c])
       THEN /\ scalls[c].starts < MaxStarts
            /\ inst' = [inst EXCEPT ![scalls[c].h] =
                         [ state |-> "starting",
                           cb |-> IF IsComp THEN "guarded" ELSE "raw" ]]
            /\ scalls' = [scalls EXCEPT ![c].cons = "facingMode",
                                        ![c].starts = @ + 1]
            /\ UNCHANGED <<errorMsg, scanning>>
       ELSE /\ inst' = [inst EXCEPT ![scalls[c].h].state = "idle"]
            /\ IF IsComp
                 THEN /\ errorMsg' = EmUnable
                      /\ scalls' = [scalls EXCEPT ![c].pc = "clear"]
                      /\ UNCHANGED scanning
                 ELSE /\ scanning' = FALSE
                      /\ scalls' = [scalls EXCEPT ![c].pc = "done"]
                      /\ UNCHANGED errorMsg
  /\ UNCHANGED <<variant, scriptState, scriptLoaded, cameras,
                 selectedCameraId, html5QrRef, camInit, decoded>>
  /\ UNCHANGED <<pageVars, pureVars>>

\* the Stop Scanning button: stopScanner() up to its first await
\*                                    QrScanner.js:141-149, 166-169; part_000:123-130, 145
ClickStop ==
  /\ scanning
  /\ Len(scalls) < MaxOps
  /\ errorMsg' = (IF IsComp THEN "" ELSE errorMsg)
  /\ IF html5QrRef = 0
       THEN /\ scanning' = FALSE
            /\ scalls' = Append(scalls, SCall("stop", "done", 0, "none", 0))
       ELSE /\ scalls' = Append(scalls, SCall("stop", "stop", html5QrRef, "none", 0))
            /\ UNCHANGED scanning
  /\ UNCHANGED <<variant, scriptState, scriptLoaded, cameras,
                 selectedCameraId, html5QrRef, camInit, inst, decoded>>
  /\ UNCHANGED <<pageVars, pureVars>>

\* a plausible slip: no try around stop(), a throwing stop() ends
\* stopScanner
StopSettled_noCatch(c) ==
  /\ scalls[c].pc = "stop"
  /\ inst' = [inst EXCEPT ![scalls[c].h].state =
                IF @ = "running" THEN "idle" ELSE @]
  /\ scalls' = [scalls EXCEPT ![c].pc =
                  IF inst[scalls[c].h].state = "running" THEN "clear"
                  ELSE "done"]
  /\ UNCHANGED <<variant, scriptState, scriptLoaded, scanning, cameras,
                 selectedCameraId, errorMsg, html5QrRef, camInit, decoded>>
  /\ UNCHANGED <<pageVars, pureVars>>

\* stop() settles: it stops a running camera and throws otherwise; either
\* way clear() is awaited next        QrScanner.js:148-154; part_000:129-135
StopSettled(c) ==
  /\ scalls[c].pc = "stop"
  /\ inst' = [inst EXCEPT ![scalls[c].h].state =
                IF @ = "running" THEN "idle" ELSE @]
  /\ scalls' = [scalls EXCEPT ![c].pc = "clear"]
  /\ UNCHANGED <<variant, scriptState, scriptLoaded, scanning, cameras,
                 selectedCameraId, errorMsg, html5QrRef, camInit, decoded>>
  /\ UNCHANGED <<pageVars, pureVars>>

\* clear() settles, fulfilled or rejected
\*                                    QrScanner.js:130-132, 154-159; part_000:135-138
ClearSettled(c) ==
  /\ scalls[c].pc = "clear"
  /\ html5QrRef' = 0
  /\ scanning' = FALSE
  /\ scalls' = [scalls EXCEPT ![c].pc = "done"]
  /\ UNCHANGED <<variant, scriptState, scriptLoaded, cameras,
                 selectedCameraId, errorMsg, camInit, inst, decoded>>
  /\ UNCHANGED pureVars
  /\ UNCHANGED pageVars

\* a plausible slip: single-shot mode, the callback stops the scanner
Decode_singleShot(k, text) ==
  /\ k \in 1..Len(inst)
  /\ inst[k].state = "running"
  /\ Len(hcalls) < MaxScans
  /\ decoded' = Append(decoded, [inst |-> k, text |-> text])
  /\ handleScan(text)
  /\ inst' = [inst EXCEPT ![k].state = "idle"]
  /\ scanning' = FALSE
  /\ UNCHANGED <<variant, scriptState, scriptLoaded, cameras,
                 selectedCameraId, errorMsg, html5QrRef, camInit, scalls>>
  /\ UNCHANGED pureVars

\* a running instance decodes a QR code and calls the decode callback:
\* onScan && onScan(decodedText), the page's handleScan; the scanner keeps
\* running                            QrScanner.js:106, 121; part_000:94-102, 113
Decode(k, text) ==
  /\ k \in 1..Len(inst)
  /\ inst[k].state = "running"
  /\ Len(hcalls) < MaxScans
  /\ decoded' = Append(decoded, [inst |-> k, text |-> text])
  /\ handleScan(text)
  /\ UNCHANGED <<variant, scriptState, scriptLoaded, scanning, cameras,
                 selectedCameraId, errorMsg, html5QrRef, camInit, inst,
                 scalls>>
  /\ UNCHANGED pureVars

(***************************************************************************)
(* The scanner component with the page's handler behind its callback       *)
(***************************************************************************)
Init == InitPage /\ InitScanner /\ InitPure

NextScanner ==
  \/ ScriptLoad
  \/ ScriptError
  \/ \E cams \in CamLists : GetCamerasFulfilled(cams)
  \/ GetCamerasRejected
  \/ \E i \in 1..2 : SelectCamera(i)
  \/ ClickStart
  \/ \E c \in 1..Len(scalls) : StartFulfilled(c)
  \/ \E c \in 1..Len(scalls) : StartRejected(c)
  \/ ClickStop
  \/ \E c \in 1..Len(scalls) : StopSettled(c)
  \/ \E c \in 1..Len(scalls) : ClearSettled(c)
  \/ \E k \in 1..Len(inst) : \E text \in ScanTexts : Decode(k, text)

SpecScanner == Init /\ [][NextScanner]_vars

(***************************************************************************)
(* The page while the scanner runs: the script is loaded, the camera list  *)
(* is there, Start was clicked and start() was fulfilled                   *)
(***************************************************************************)
InitScanning ==
  /\ variant \in Variants
  /\ scriptState = "loaded"
  /\ scriptLoaded = IsComp
  /\ scanning = TRUE
  /\ cameras = <<Cam1>>
  /\ selectedCameraId = Cam1.id
  /\ errorMsg = ""
  /\ html5QrRef = 1
  /\ camInit = "listed"
  /\ inst = <<[state |-> "running", cb |-> "guarded"]>>
  /\ scalls = <<SCall("start", "done", 1, "deviceId", 1)>>
  /\ decoded = <<>>

NextPage ==
  \/ \E k \in 1..Len(inst) : \E text \in ScanTexts : Decode(k, text)
  \/ \E n \in 1..Len(hcalls) : FetchFulfilled(n)
  \/ \E n \in 1..Len(hcalls) : FetchRejected(n)
  \/ \E n \in 1..Len(hcalls) : \E body \in Bodies : JsonSettled(n, body)
  \/ ToggleDetails

InitRunning == InitPage /\ InitScanning /\ InitPure

SpecPage == InitRunning /\ [][NextPage]_vars

(***************************************************************************)
(* Properties of extractAppleTrackId                                       *)
(***************************************************************************)
\* the text has "?i=" or "&i=" followed by a digit at position p
C2_IAt(text, p) ==
  /\ p + 3 <= Len(text)
  /\ \/ SubSeq(text, p, p + 2) = <<"?", "i", "=">>
     \/ SubSeq(text, p, p + 2) = <<"&", "i", "=">>
  /\ text[p + 3] \in Digits

\* the text has "/id" followed by a digit at position p
C2_IdAt(text, p) ==
  /\ p + 3 <= Len(text)
  /\ SubSeq(text, p, p + 2) = <<"/", "i", "d">>
  /\ text[p + 3] \in Digits

\* run is the whole run of digits that starts at position p of the text
C2_IsRunAt(text, p, run) ==
  /\ run # <<>>
  /\ p + Len(run) - 1 <= Len(text)
  /\ run = SubSeq(text, p, p + Len(run) - 1)
  /\ \A k \in 1..Len(run) : run[k] \in Digits
  /\ \/ p + Len(run) > Len(text)
     \/ text[p + Len(run)] \notin Digits

C2_AllDigits(text) == \A k \in 1..Len(text) : text[k] \in Digits

\* C2: extractAppleTrackId returns the digit run after the first "?i=" or
\* "&i=" that is followed by a digit; otherwise the digit run after the
\* first "/id" that is followed by a digit; otherwise the whole text when it
\* is six or more digits and nothing else; otherwise null, also for an empty
\* or missing text.
C2_ExtractRule ==
  exOut # Pending =>
    IF exIn \in {Undefined, Null, Str(<<>>)} THEN exOut = Null
    ELSE LET text == exIn.v IN
      IF \E p \in 1..Len(text) : C2_IAt(text, p)
        THEN \E p \in 1..Len(text) :
               /\ C2_IAt(text, p)
               /\ \A q \in 1..(p - 1) : ~C2_IAt(text, q)
               /\ exOut.t = "string"
               /\ C2_IsRunAt(text, p + 3, exOut.v)
      ELSE IF \E p \in 1..Len(text) : C2_IdAt(text, p)
        THEN \E p \in 1..Len(text) :
               /\ C2_IdAt(text, p)
               /\ \A q \in 1..(p - 1) : ~C2_IdAt(text, q)
               /\ exOut.t = "string"
               /\ C2_IsRunAt(text, p + 3, exOut.v)
      ELSE IF C2_AllDigits(text) /\ Len(text) >= 6 THEN exOut = exIn
      ELSE exOut = Null

\* a text with "/id8" before "&i=7" and more digits: the i= parameter wins
\* and the whole digit run is returned
C2_Witness ==
  /\ exIn = Str(<<"/", "i", "d", "8", "&", "i", "=", "7", "1", "x">>)
  /\ exOut = Str(<<"7", "1">>)

(***************************************************************************)
(* Properties of normalizeItunesItem                                       *)
(***************************************************************************)
\* x || y || z on the item's fields, spelled out by cases
C8_FirstPresent(a, b, dflt) ==
  IF a \notin {Undefined, Null, Str(<<>>)} THEN a
  ELSE IF b \notin {Undefined, Null, Str(<<>>)} THEN b
  ELSE dflt

C8_PlainFields ==
  /\ nzOut.id = nzIn.trackId
  /\ nzOut.title = nzIn.trackName
  /\ nzOut.artist = nzIn.artistName
  /\ nzOut.album = nzIn.collectionName
  /\ nzOut.previewUrl = C8_FirstPresent(nzIn.previewUrl, Null, Null)
  /\ nzOut.itunesUrl =
       C8_FirstPresent(nzIn.trackViewUrl, nzIn.collectionViewUrl, Null)

C8_ArtworkSource ==
  C8_FirstPresent(nzIn.artworkUrl100, nzIn.artworkUrl60, Str(<<>>))

\* C8 as stated: the artwork is the artworkUrl100 (else artworkUrl60, else
\* "") itself.
C8_AsStated ==
  nzOut # Pending => C8_PlainFields /\ nzOut.artwork = C8_ArtworkSource

\* C8 (amended): normalizeItunesItem maps the item field by field, and the
\* artwork is artworkUrl100 (else artworkUrl60, else "") in which the first
\* "100x100" or "60x60" is replaced by "600x600".
C8_NormalizeRule ==
  nzOut # Pending =>
    /\ C8_PlainFields
    /\ LET src == C8_ArtworkSource.v
           art == nzOut.artwork.v
       IN /\ nzOut.artwork.t = "string"
          /\ Len(art) = Len(src)
          /\ IF \A k \in 1..Len(src) : src[k] \notin SizeTokens
               THEN art = src
               ELSE \E k \in 1..Len(src) :
                      /\ src[k] \in SizeTokens
                      /\ \A j \in 1..(k - 1) : src[j] \notin SizeTokens
                      /\ art = [src EXCEPT ![k] = "600x600"]

\* an item with both artwork sizes, the large one carrying two size tokens
C8_Witness ==
  /\ nzOut # Pending
  /\ nzIn.artworkUrl100 = Str(<<"100x100", "60x60">>)
  /\ nzIn.artworkUrl60 = Str(<<"u">>)
  /\ nzOut.artwork = Str(<<"600x600", "60x60">>)
  /\ nzIn.previewUrl = Str(<<>>) /\ nzOut.previewUrl = Null
  /\ nzIn.trackViewUrl = Undefined /\ nzOut.itunesUrl = Str(<<"c">>)

(***************************************************************************)
(* Properties of the scan-to-lookup pipeline (SpecPage)                    *)
(***************************************************************************)
\* the fetch() calls made for scan n
C1_RequestsOf(n) == { i \in 1..Len(fetchLog) : fetchLog[i].scan = n }

\* C1: every invocation of handleScan issues exactly one network request:
\* a lookup with the extracted id when extractAppleTrackId is non-null, a
\* search with the scanned text otherwise; never both, also after the
\* lookup has failed or found nothing.
C1_OneRequestPerScan ==
  /\ Len(hcalls) = Len(decoded)
  /\ \A n \in 1..Len(hcalls) :
       /\ hcalls[n].text = decoded[n].text
       /\ Cardinality(C1_RequestsOf(n)) = 1
       /\ \A i \in C1_RequestsOf(n) :
            IF extractAppleTrackId(decoded[n].text) # Null
              THEN /\ fetchLog[i].api = "lookup"
                   /\ fetchLog[i].q = extractAppleTrackId(decoded[n].text)
              ELSE /\ fetchLog[i].api = "search"
                   /\ fetchLog[i].q = decoded[n].text

\* a lookup that found nothing and one that failed, each with one request
C1_Witness ==
  /\ Len(hcalls) = 2
  /\ hcalls[1].route = "lookup" /\ hcalls[1].out = "none"
  /\ hcalls[2].route = "lookup" /\ hcalls[2].out = "throw"
  /\ Len(fetchLog) = 2

C3_TrackFields ==
  {"id", "title", "artist", "album", "artwork", "previewUrl", "itunesUrl"}

\* C3: the track is cleared when the processing of a scan begins, before
\* the request is issued; a successful response sets it to the complete
\* record built from the first result; the page holds null or one record.
C3_ReplacedWholesale ==
  [][ /\ Len(fetchLog') > Len(fetchLog) => track' = Null
      /\ \A n \in 1..Len(hcalls) :
           (hcalls[n].pc # "done" /\ hcalls'[n].pc = "done"
              /\ hcalls'[n].out = "found")
           => /\ resp'.results # <<>>
              /\ track' = normalizeItunesItem(resp'.results[1])
              /\ DOMAIN track' = C3_TrackFields
      /\ track' # Null => DOMAIN track' = C3_TrackFields ]_vars

\* a second scan has replaced the track by the first of two results
C3_Witness ==
  /\ Len(hcalls) = 2
  /\ hcalls[1].out = "found" /\ hcalls[2].out = "found"
  /\ Len(resp.results) = 2
  /\ track = normalizeItunesItem(ItemB)

\* C4: a rejected fetch, an unparsable body or a response without results
\* ends the scan with the matching status line and without a track set by
\* that scan; no exception leaves handleScan ("Scan error" never shows),
\* and the next decode is accepted.
C4_FailuresSurfaced ==
  [][ /\ \A n \in 1..Len(hcalls) :
           (hcalls[n].pc # "done" /\ hcalls'[n].pc = "done"
              /\ hcalls'[n].out # "found")
           => /\ track' = track
              /\ status' =
                   (IF hcalls'[n].out = "throw"
                      THEN (IF hcalls[n].route = "lookup"
                              THEN StLookupFailed ELSE StSearchFailed)
                      ELSE (IF hcalls[n].route = "lookup"
                              THEN StNoResultsId(hcalls[n].id)
                              ELSE StNoSearchResults))
      /\ status' # StScanError
      /\ (Len(hcalls') < MaxScans =>
            \A text \in ScanTexts :
              (ENABLED Decode(1, text))') ]_vars

\* a failed lookup followed by a scan that found its track
C4_Witness ==
  /\ Len(hcalls) = 2
  /\ hcalls[1].out = "throw" /\ hcalls[1].route = "lookup"
  /\ hcalls[2].out = "found"
  /\ track # Null

\* the scans whose request has not completed
C9_InFlight == { n \in 1..Len(hcalls) : hcalls[n].pc # "done" }

\* C9: a decode delivered while the request of an earlier scan is in
\* flight starts no second request: at most one request is in flight.
C9_OneInFlight == Cardinality(C9_InFlight) <= 1

\* the status lines a scan can end with
C10_EndStatuses(c) ==
  { (IF c.route = "lookup" THEN lookupByIdEnd(c.id, b, Null)
     ELSE searchByTextEnd(b, Null)).status : b \in Bodies \cup {Rejected} }

C10_FailureStatuses ==
  { StLookupFailed, StSearchFailed, StNoSearchResults }
    \cup { StNoResultsId(extractAppleTrackId(t)) : t \in ScanTexts }

\* C10: once all requests have completed, the track and the status are
\* those of the most recent scan, and a failure status never shows
\* together with a track.
C10_LastScanWins ==
  /\ (Len(hcalls) > 0 /\ C9_InFlight = {}) =>
       LET c == hcalls[Len(hcalls)]
       IN /\ status \in C10_EndStatuses(c)
          /\ (track # Null) = (c.out = "found")
  /\ status \in C10_FailureStatuses => track = Null

(***************************************************************************)
(* Properties of the scanner component (SpecScanner)                       *)
(***************************************************************************)
\* C5 as stated: one call of startScanner makes at most one call of the
\* library's start().
C5_AtMostOneStart == \A c \in 1..Len(scalls) : scalls[c].starts <= 1

\* C5 (amended): a failed start() is followed by one fallback start() with
\* facingMode "environment" (in components/QrScanner.js only when the
\* first attempt used a device id), so one call of startScanner makes at
\* most two calls of start(); once startScanner has given up or succeeded
\* it calls start() no more, and every decode issues one request.
C5_OneFallbackOnly ==
  [][ /\ \A c \in 1..Len(scalls') :
           /\ scalls'[c].starts <= 2
           /\ scalls'[c].starts = 2 =>
                /\ scalls'[c].cons = "facingMode"
                /\ IsComp => scalls'[c].first = "deviceId"
      /\ \A c \in 1..Len(scalls) :
           scalls[c].pc # "start" => scalls'[c].starts = scalls[c].starts
      /\ Len(fetchLog') = Len(decoded') ]_vars

\* a startScanner whose two start() calls both failed, and one that needed
\* the fallback to get the camera running
C5_Witness ==
  /\ Len(scalls) = 2
  /\ scalls[1].pc = "done" /\ scalls[1].starts = 2
  /\ inst[1].state = "idle"
  /\ scalls[2].pc = "done" /\ scalls[2].starts = 2
  /\ inst[2].state = "running"

\* C6: in components/QrScanner.js an empty camera list sets the "No
\* cameras found" message, with no camera listed or selected; a rejected
\* getCameras sets the "Could not access camera list" message; when the
\* last start() fails the "Unable to start camera" message is set, and
\* when startScanner ends the instance reference is null and scanning is
\* false.
C6_CameraFailures ==
  [][ IsComp =>
      /\ (camInit = "getCameras" /\ camInit' = "empty") =>
           /\ errorMsg' = EmNoCameras
           /\ cameras' = <<>>
           /\ ~Truthy(selectedCameraId')
      /\ (camInit = "getCameras" /\ camInit' = "rejected") =>
           errorMsg' = EmNoAccess
      /\ \A c \in 1..Len(scalls) :
           /\ (scalls[c].pc = "start" /\ scalls'[c].pc = "clear") =>
                /\ errorMsg' = EmUnable
                /\ inst'[scalls[c].h].state = "idle"
           /\ (scalls[c].op = "start" /\ scalls[c].pc = "clear"
                 /\ scalls'[c].pc = "done") =>
                /\ html5QrRef' = 0
                /\ scanning' = FALSE ]_vars

\* no camera was found and the camera could not be started
C6_Witness ==
  /\ IsComp
  /\ camInit = "empty"
  /\ Len(scalls) = 1 /\ scalls[1].op = "start" /\ scalls[1].pc = "done"
  /\ errorMsg = EmUnable
  /\ html5QrRef = 0
  /\ ~scanning

C11_Active == { k \in 1..Len(inst) : inst[k].state \in {"starting", "running"} }

\* C11: startScanner never creates and starts a second instance while an
\* earlier one is starting or running: at most one instance is active.
C11_OneActiveInstance == Cardinality(C11_Active) <= 1

\* a startScanner that has called start() and awaits it
C12_StartPending ==
  \E c \in 1..Len(scalls) : scalls[c].op = "start" /\ scalls[c].pc = "start"

\* C12: when scanning is true the reference holds the instance whose
\* camera is running; when scanning is false and no start is pending no
\* camera is running.
C12_FlagAgreesWithInstance ==
  /\ scanning =>
       /\ html5QrRef # 0
       /\ inst[html5QrRef].state = "running"
  /\ (~scanning /\ ~C12_StartPending) =>
       \A k \in 1..Len(inst) : inst[k].state # "running"

\* C13: when stopScanner completes the reference is null and scanning is
\* false, whether stop() stopped a camera or threw; it awaits stop(), then
\* clear(); without an instance it sets scanning to false and calls
\* neither.
C13_StopFrees ==
  [][ /\ \A c \in 1..Len(scalls) :
           scalls[c].op = "stop" =>
             /\ (scalls[c].pc # "done" /\ scalls'[c].pc = "done") =>
                  /\ html5QrRef' = 0
                  /\ scanning' = FALSE
             /\ scalls[c].pc = "stop" => scalls'[c].pc \in {"stop", "clear"}
             /\ scalls[c].pc = "clear" => scalls'[c].pc \in {"clear", "done"}
      /\ (Len(scalls') = Len(scalls) + 1
            /\ scalls'[Len(scalls')].op = "stop") =>
           IF html5QrRef = 0
             THEN /\ scalls'[Len(scalls')].pc = "done"
                  /\ scanning' = FALSE
                  /\ inst' = inst
                  /\ html5QrRef' = 0
             ELSE /\ scalls'[Len(scalls')].pc = "stop"
                  /\ scalls'[Len(scalls')].h = html5QrRef ]_vars

\* Stop was clicked while scanning was true and the reference null: the
\* call ended at once, with the first instance's camera still running
C13_Witness ==
  /\ Len(scalls) = 3
  /\ scalls[3].op = "stop" /\ scalls[3].h = 0 /\ scalls[3].pc = "done"
  /\ html5QrRef = 0
  /\ ~scanning
  /\ inst[1].state = "running"

\* C14: in components/QrScanner.js a startScanner without the loaded
\* library sets "Scanner library not yet loaded." and creates no instance;
\* otherwise its first start() uses the device id when that is non-empty
\* and facingMode otherwise, a second start() is made only after the one
\* with the device id was rejected and uses facingMode; scanning becomes
\* true exactly in the step in which a start() is fulfilled.
C14_GuardedStart ==
  [][ IsComp =>
      /\ (Len(scalls') = Len(scalls) + 1
            /\ scalls'[Len(scalls')].op = "start") =>
           LET new == scalls'[Len(scalls')]
           IN IF ~scriptLoaded
                THEN /\ errorMsg' = EmNotLoaded
                     /\ new.pc = "done" /\ new.starts = 0
                     /\ inst' = inst
                     /\ html5QrRef' = html5QrRef
                ELSE /\ ~scanning
                     /\ Len(inst') = Len(inst) + 1
                     /\ html5QrRef' = Len(inst')
                     /\ new.h = Len(inst')
                     /\ new.pc = "start" /\ new.starts = 1
                     /\ new.cons =
                          (IF selectedCameraId \in {Str(<<>>), Null, Undefined}
                             THEN "facingMode" ELSE "deviceId")
      /\ \A c \in 1..Len(scalls) :
           /\ scalls'[c].starts > scalls[c].starts =>
                /\ scalls[c].pc = "start"
                /\ scalls[c].starts = 1
                /\ scalls[c].cons = "deviceId"
                /\ scalls'[c].cons = "facingMode"
                /\ scanning' = scanning
           /\ (scalls[c].pc = "start" /\ scalls'[c].pc = "done") =>
                /\ scanning'
                /\ inst'[scalls[c].h].state = "running"
      /\ (~scanning /\ scanning') =>
           \E c \in 1..Len(scalls) :
             /\ scalls[c].op = "start"
             /\ scalls[c].pc = "start" /\ scalls'[c].pc = "done" ]_vars

\* a click before the library was loaded, then a start that needed the
\* facingMode fallback after the device id was refused
C14_Witness ==
  /\ IsComp
  /\ Len(scalls) = 2
  /\ scalls[1].op = "start" /\ scalls[1].starts = 0
  /\ scalls[2].first = "deviceId" /\ scalls[2].cons = "facingMode"
  /\ scalls[2].starts = 2 /\ scalls[2].pc = "done"
  /\ scanning
  /\ inst[1].state = "running"

====
